---- MODULE Spec2Model ----
(***************************************************************************)
(* Model of the go-e2e test runner (src/runner.go, TestRunner): one run of *)
(* RunTests over the identifiers found by Setup.  The main goroutine       *)
(* dispatches one Execution Unit per entry of testsToRun; in parallel mode *)
(* every unit is a goroutine gated by the buffered channel sem, in         *)
(* sequential mode runTest is called inline.  A unit is identified by its  *)
(* position in testsToRun (two positions may carry the same name).         *)
(***************************************************************************)
EXTENDS Integers, Sequences, FiniteSets, TLC

\* ---------------------------------------------------------------- bounds
MaxTests == 3
MaxParallelism == 2
MaxFiles == 2
MaxHead == 1
MaxRun == 21
MaxEntries == 3
MaxReruns == 1

\* Identifiers returned by getTestsToRun are names of Go functions that
\* begin with "Test"; they are opaque to the scheduler.
TestNames == <<"TestExample1", "TestExample2", "TestExample3", "TestExample4", "TestExample5">>

VARIABLES
    config,           \* TestRunnerConfig: NoFastFail, NoParallel, Parallelism
    testsToRun,       \* r.testsToRun
    failedTests,      \* r.failedTests
    passedTests,      \* r.passedTests
    incompleteTests,  \* r.incompleteTests
    testTimings,      \* keys of r.testTimings
    mu,               \* r.mu: 0 = unlocked, i = held by unit i
    cancelled,        \* ctx.Done() is closed
    sem,              \* units that have sent on sem and not yet received
    wg,               \* WaitGroup counter
    mainpc,           \* position of RunTests
    next,             \* index of the range loop over testsToRun
    pc,               \* position of each unit
    result,           \* what cmd.Run() did for each unit
    liveLine,         \* the "--- PASS"/"--- FAIL" line a unit printed
    info,             \* the "--- INFO" line RunTests printed
    summary,          \* what printSummary printed
    ret,              \* return value of RunTests
    crashed,          \* the Go runtime aborted the process (fatal error)
    setupErr,         \* what Setup returned: "pending" before it has run
    reruns,           \* calls of RunTests on this runner after the first
    BuildTags,        \* config.BuildTags, as tokens ("," is the separator)
    walkpc,           \* position of getTestsToRun
    walked,           \* entries filepath.Walk has handed to the callback
    entry,            \* the entry the callback saw last
    tests,            \* the local slice tests of getTestsToRun
    walkErr,          \* the error the callback returned
    included,         \* the callback reached the loop over f.Decls
    declared,         \* test functions declared in the files read so far
    discRet,          \* what getTestsToRun returned
    testName,         \* argument of sanitizeContainerName, as characters
    name,             \* its local name
    rnd,              \* what rand.Intn returned: -1 before the call
    nameSuffix,       \* its local suffix
    containerName,    \* what sanitizeContainerName returned
    sanpc,            \* position of sanitizeContainerName
    prevCall,         \* random value and result of the call before
    unitTests,        \* identifiers of two units that run side by side
    containers,       \* the --name of each unit's container, <<>> if none
    fileName,         \* w.fileName, as path elements
    baseDir,          \* w.baseDir, as path elements
    configFiles,      \* the local slice configFiles of FindConfigFiles
    findRet,          \* what FindConfigFiles returned
    fwpc,             \* position of FindConfigFiles
    dirStack,         \* the directories from baseDir down to the last entry
    visited,          \* entries of the tree below baseDir seen so far
    expectedFiles,    \* files of the tree that are to be reported
    strictFiles       \* the same, under the narrow reading

vars == <<config, testsToRun, failedTests, passedTests, incompleteTests,
          testTimings, mu, cancelled, sem, wg, mainpc, next, pc, result,
          liveLine, info, summary, ret, crashed, setupErr, reruns, BuildTags,
          walkpc, walked, entry, tests, walkErr, included, declared, discRet,
          testName, name, rnd, nameSuffix, containerName, sanpc, prevCall,
          unitTests, containers,
          fileName, baseDir, configFiles, findRet, fwpc, dirStack, visited,
          expectedFiles, strictFiles>>

\* the state of the discovery pass
discVars == <<BuildTags, walkpc, walked, entry, tests, walkErr, included,
              declared, discRet>>

\* the state of the runner and of one run
runVars == <<config, testsToRun, failedTests, passedTests, incompleteTests,
             testTimings, mu, cancelled, sem, wg, mainpc, next, pc, result,
             liveLine, info, summary, ret, crashed, setupErr, reruns>>

\* the state of calls of sanitizeContainerName
sanVars == <<testName, name, rnd, nameSuffix, containerName, sanpc, prevCall,
             unitTests, containers>>

\* the state of FindConfigFiles and of the tree it walks
findVars == <<fileName, baseDir, configFiles, findRet, fwpc, dirStack, visited,
              expectedFiles, strictFiles>>

Units == 1..Len(testsToRun)

\* ---------------------------------------------------------------- helpers
InSeq(x, s) == \E k \in 1..Len(s) : s[k] = x

SeqSet(s) == {s[k] : k \in 1..Len(s)}

NoSummary == [header |-> "none", pass |-> <<>>, fail |-> <<>>, stop |-> <<>>]

\* Discovery results up to renaming: position k carries either a name that
\* already occurred or the next unused one (filepath.Walk visits several
\* packages, so one name can be declared in two files).
RECURSIVE MaxOf(_)
MaxOf(s) == IF Len(s) = 0 THEN 0
            ELSE LET m == MaxOf(Tail(s)) IN IF Head(s) > m THEN Head(s) ELSE m

DiscoveryShapes(n) ==
    {s \in [1..n -> 1..n] :
        \A k \in 1..n : s[k] <= 1 + MaxOf(SubSeq(s, 1, k - 1))}

Discoveries ==
    UNION {{[k \in 1..n |-> TestNames[s[k]]] : s \in DiscoveryShapes(n)} : n \in 0..MaxTests}

\* ---------------------------------------------------------------- pure parts of the code
\* the guard of the fail-fast side effects: no failure recorded so far
IsFirstFailure_always == TRUE
IsFirstFailure == Len(failedTests) = 0

\* the "fail-fast is live" condition tested before cancel()
FailFastLive_always == TRUE
FailFastLive == ~config.NoFastFail

\* sem <- struct{}{} proceeds iff the channel buffer has room
SemHasRoom_unbounded == TRUE
SemHasRoom == Cardinality(sem) < config.Parallelism

\* r.mu.Lock() returns: no unit holds the mutex
MutexFree_always == TRUE
MutexFree == mu = 0

\* append(list, test), the way an outcome enters the passed or failed list
AppendOutcome_prepend(list, test) == <<test>> \o list
AppendOutcome(list, test) == Append(list, test)

\* cmd.Run() returned a non-nil error
RunErr_inverted(res) == res = "ok"
RunErr(res) == res # "ok"

\* the loop that computes the identifiers to record as incomplete
IncompleteOf_ranOnly(test) ==
    SelectSeq(testsToRun,
              LAMBDA t : /\ t # ""
                         /\ t # test
                         /\ (InSeq(t, passedTests) \/ InSeq(t, failedTests)))
IncompleteOf(test) ==
    SelectSeq(testsToRun,
              LAMBDA t : /\ t # ""
                         /\ t # test
                         /\ ~InSeq(t, passedTests)
                         /\ ~InSeq(t, failedTests))

\* the header printSummary chooses
SummaryHeader_fromPassed == IF Len(passedTests) > 0 THEN "PASS" ELSE "FAIL"
SummaryHeader == IF Len(failedTests) = 0 THEN "PASS" ELSE "FAIL"

printSummary ==
    IF Len(failedTests) = 0
    THEN [header |-> SummaryHeader, pass |-> passedTests, fail |-> <<>>, stop |-> <<>>]
    ELSE IF ~config.NoFastFail
         THEN [header |-> SummaryHeader, pass |-> passedTests,
               fail |-> failedTests, stop |-> <<>>]
         ELSE [header |-> SummaryHeader, pass |-> passedTests,
               fail |-> <<failedTests[1]>>, stop |-> incompleteTests]

\* the first "--- INFO" line of RunTests
InfoLine_noZeroCase ==
    IF Len(testsToRun) = 1 THEN "Running 1 test"
    ELSE IF config.NoParallel THEN "Running tests sequentially"
    ELSE "Running tests in parallel"
InfoLine ==
    IF Len(testsToRun) = 1 THEN "Running 1 test"
    ELSE IF Len(testsToRun) = 0 THEN "No tests to run"
    ELSE IF config.NoParallel THEN "Running tests sequentially"
    ELSE "Running tests in parallel"

\* Another unit is inside its critical section while unit i reads
\* r.failedTests / r.testTimings after having released the mutex.
Racing(i) == mu # 0 /\ mu # i

\* What the unsynchronised read of r.failedTests[0] can yield: element 0 as
\* written by the first append, or, while another unit is appending, the
\* zero string of a freshly grown backing array.
FirstFailedSeenBy(i) ==
    {failedTests[1]} \cup
        (IF Racing(i) /\ RunErr(result[mu]) THEN {""} ELSE {})

\* ---------------------------------------------------------------- initial state
\* no discovery pass is under observation
DiscoveryIdle ==
    /\ BuildTags = <<>>
    /\ walkpc = "idle"
    /\ walked = 0
    /\ entry = [kind |-> "none"]
    /\ tests = <<>>
    /\ walkErr = "none"
    /\ included = FALSE
    /\ declared = <<>>
    /\ discRet = [tests |-> <<>>, err |-> "pending"]

NoCall == [rnd |-> -1, out |-> <<>>]

\* sanitizeContainerName is not being called
SanitizeIdle ==
    /\ testName = <<>>
    /\ name = <<>>
    /\ rnd = -1
    /\ nameSuffix = <<>>
    /\ containerName = <<>>
    /\ sanpc = "idle"
    /\ prevCall = NoCall
    /\ unitTests = <<>>
    /\ containers = <<>>

NotReturned == [files |-> <<>>, err |-> "pending"]

\* FindConfigFiles is not being called
FindIdle ==
    /\ fileName = <<>>
    /\ baseDir = <<>>
    /\ configFiles = <<>>
    /\ findRet = NotReturned
    /\ fwpc = "idle"
    /\ dirStack = <<>>
    /\ visited = 0
    /\ expectedFiles = <<>>
    /\ strictFiles = <<>>

\* NewTestRunner has returned a runner; run() is about to call Setup
Init ==
    /\ SanitizeIdle
    /\ FindIdle
    /\ config \in [NoFastFail : BOOLEAN, NoParallel : BOOLEAN,
                   Parallelism : 0..MaxParallelism]
    /\ testsToRun = <<>>
    /\ failedTests = <<>>
    /\ passedTests = <<>>
    /\ incompleteTests = <<>>
    /\ testTimings = {}
    /\ mu = 0
    /\ cancelled = FALSE
    /\ sem = {}
    /\ wg = 0
    /\ mainpc = "setup"
    /\ next = 1
    /\ pc = <<>>
    /\ result = <<>>
    /\ liveLine = <<>>
    /\ info = "none"
    /\ summary = NoSummary
    /\ ret = "none"
    /\ crashed = FALSE
    /\ setupErr = "pending"
    /\ reruns = 0
    /\ DiscoveryIdle

\* ---------------------------------------------------------------- Setup and the CLI
\* the steps of Setup that can fail, in the order Setup takes them
SetupErrors == {"tmpdir", "assets", "binary", "image", "discovery"}

\* run() of the CLI: if err := runner.Setup(); err != nil { return err },
\* otherwise it goes on to runner.RunTests()
AfterSetup_ignoreErr(err) == "idle"
AfterSetup(err) == IF err = "none" THEN "idle" ELSE "exit"

\* Setup: every step before the assignment of r.testsToRun can fail and make
\* Setup return; the last step stores what getTestsToRun returned
Setup ==
    /\ mainpc = "setup"
    /\ \/ \E d \in Discoveries :
             /\ testsToRun' = d
             /\ pc' = [i \in 1..Len(d) |-> "new"]
             /\ result' = [i \in 1..Len(d) |-> "none"]
             /\ liveLine' = [i \in 1..Len(d) |-> "none"]
             /\ setupErr' = "none"
       \/ \E e \in SetupErrors :
             /\ setupErr' = e
             /\ UNCHANGED <<testsToRun, pc, result, liveLine>>
    /\ mainpc' = AfterSetup(setupErr')
    /\ UNCHANGED <<reruns, discVars, sanVars, findVars>>
    /\ UNCHANGED <<config, failedTests, passedTests, incompleteTests,
                   testTimings, mu, cancelled, sem, wg, next, info, summary,
                   ret, crashed>>

\* ---------------------------------------------------------------- RunTests
\* RunTests entry: context.WithCancel, testTimings = make(map), INFO line,
\* sem = make(chan struct{}, Parallelism)
Begin ==
    /\ ~crashed
    /\ mainpc = "idle"
    /\ mainpc' = "dispatching"
    /\ testTimings' = {}
    /\ info' = InfoLine
    /\ sem' = {}
    /\ UNCHANGED <<setupErr, reruns, discVars, sanVars, findVars>>
    /\ UNCHANGED <<config, testsToRun, failedTests, passedTests, incompleteTests,
                   mu, cancelled, wg, next, pc, result, liveLine, summary, ret,
                   crashed>>

\* parallel mode: wg.Add(1); go func(test) {...}(test)
Spawn_lastFirst ==
    /\ ~crashed
    /\ mainpc = "dispatching"
    /\ ~config.NoParallel
    /\ next \in Units
    /\ wg' = wg + 1
    /\ pc' = [pc EXCEPT ![Len(testsToRun) + 1 - next] = "waiting"]
    /\ next' = next + 1
    /\ UNCHANGED <<setupErr, reruns, discVars, sanVars, findVars>>
    /\ UNCHANGED <<config, testsToRun, failedTests, passedTests, incompleteTests,
                   testTimings, mu, cancelled, sem, mainpc, result, liveLine,
                   info, summary, ret, crashed>>
Spawn ==
    /\ ~crashed
    /\ mainpc = "dispatching"
    /\ ~config.NoParallel
    /\ next \in Units
    /\ wg' = wg + 1
    /\ pc' = [pc EXCEPT ![next] = "waiting"]
    /\ next' = next + 1
    /\ UNCHANGED <<setupErr, reruns, discVars, sanVars, findVars>>
    /\ UNCHANGED <<config, testsToRun, failedTests, passedTests, incompleteTests,
                   testTimings, mu, cancelled, sem, mainpc, result, liveLine,
                   info, summary, ret, crashed>>

\* sequential mode: r.runTest(ctx, test, cancel) called from the loop
Call_eager ==
    /\ ~crashed
    /\ mainpc = "dispatching"
    /\ config.NoParallel
    /\ next \in Units
    /\ pc[next] = "new"
    /\ pc' = [pc EXCEPT ![next] = "admitted"]
    /\ next' = next + 1
    /\ UNCHANGED <<setupErr, reruns, discVars, sanVars, findVars>>
    /\ UNCHANGED <<config, testsToRun, failedTests, passedTests, incompleteTests,
                   testTimings, mu, cancelled, sem, wg, mainpc, result,
                   liveLine, info, summary, ret, crashed>>
Call ==
    /\ ~crashed
    /\ mainpc = "dispatching"
    /\ config.NoParallel
    /\ next \in Units
    /\ pc[next] = "new"
    /\ pc' = [pc EXCEPT ![next] = "admitted"]
    /\ UNCHANGED <<setupErr, reruns, discVars, sanVars, findVars>>
    /\ UNCHANGED <<config, testsToRun, failedTests, passedTests, incompleteTests,
                   testTimings, mu, cancelled, sem, wg, mainpc, next, result,
                   liveLine, info, summary, ret, crashed>>

\* the range loop is exhausted
EndDispatch ==
    /\ ~crashed
    /\ mainpc = "dispatching"
    /\ next > Len(testsToRun)
    /\ mainpc' = "draining"
    /\ UNCHANGED <<setupErr, reruns, discVars, sanVars, findVars>>
    /\ UNCHANGED <<config, testsToRun, failedTests, passedTests, incompleteTests,
                   testTimings, mu, cancelled, sem, wg, next, pc, result,
                   liveLine, info, summary, ret, crashed>>

\* if !NoParallel { wg.Wait() } returns
Drained_noWait ==
    /\ ~crashed
    /\ mainpc = "draining"
    /\ mainpc' = "summarizing"
    /\ UNCHANGED <<setupErr, reruns, discVars, sanVars, findVars>>
    /\ UNCHANGED <<config, testsToRun, failedTests, passedTests, incompleteTests,
                   testTimings, mu, cancelled, sem, wg, next, pc, result,
                   liveLine, info, summary, ret, crashed>>
Drained ==
    /\ ~crashed
    /\ mainpc = "draining"
    /\ config.NoParallel \/ wg = 0
    /\ mainpc' = "summarizing"
    /\ UNCHANGED <<setupErr, reruns, discVars, sanVars, findVars>>
    /\ UNCHANGED <<config, testsToRun, failedTests, passedTests, incompleteTests,
                   testTimings, mu, cancelled, sem, wg, next, pc, result,
                   liveLine, info, summary, ret, crashed>>

\* r.printSummary(suiteDuration); return nil (the deferred cancel() runs)
Summarize ==
    /\ ~crashed
    /\ mainpc = "summarizing"
    /\ summary' = printSummary
    /\ ret' = "nil"
    /\ cancelled' = TRUE
    /\ mainpc' = "done"
    /\ UNCHANGED <<setupErr, reruns, discVars, sanVars, findVars>>
    /\ UNCHANGED <<config, testsToRun, failedTests, passedTests, incompleteTests,
                   testTimings, mu, sem, wg, next, pc, result, liveLine, info,
                   crashed>>

\* ---------------------------------------------------------------- the worker goroutine and runTest
\* sem <- struct{}{}
Acquire(i) ==
    /\ ~crashed
    /\ pc[i] = "waiting"
    /\ SemHasRoom
    /\ sem' = sem \cup {i}
    /\ pc' = [pc EXCEPT ![i] = "admitted"]
    /\ UNCHANGED <<setupErr, reruns, discVars, sanVars, findVars>>
    /\ UNCHANGED <<config, testsToRun, failedTests, passedTests, incompleteTests,
                   testTimings, mu, cancelled, wg, mainpc, next, result,
                   liveLine, info, summary, ret, crashed>>

\* runTest up to cmd.Start(): with ctx already done no process is started
\* and cmd.Run() returns ctx.Err()
Start_dropCancelled(i) ==
    /\ ~crashed
    /\ pc[i] = "admitted"
    /\ IF cancelled
       THEN /\ result' = [result EXCEPT ![i] = "notstarted"]
            /\ pc' = [pc EXCEPT ![i] = "returning"]
       ELSE /\ result' = result
            /\ pc' = [pc EXCEPT ![i] = "running"]
    /\ UNCHANGED <<setupErr, reruns, discVars, sanVars, findVars>>
    /\ UNCHANGED <<config, testsToRun, failedTests, passedTests, incompleteTests,
                   testTimings, mu, cancelled, sem, wg, mainpc, next, liveLine,
                   info, summary, ret, crashed>>
Start_ignoreCancelled(i) ==
    /\ ~crashed
    /\ pc[i] = "admitted"
    /\ result' = result
    /\ pc' = [pc EXCEPT ![i] = "running"]
    /\ UNCHANGED <<setupErr, reruns, discVars, sanVars, findVars>>
    /\ UNCHANGED <<config, testsToRun, failedTests, passedTests, incompleteTests,
                   testTimings, mu, cancelled, sem, wg, mainpc, next, liveLine,
                   info, summary, ret, crashed>>
Start(i) ==
    /\ ~crashed
    /\ pc[i] = "admitted"
    /\ IF cancelled
       THEN /\ result' = [result EXCEPT ![i] = "notstarted"]
            /\ pc' = [pc EXCEPT ![i] = "exited"]
       ELSE /\ result' = result
            /\ pc' = [pc EXCEPT ![i] = "running"]
    /\ UNCHANGED <<setupErr, reruns, discVars, sanVars, findVars>>
    /\ UNCHANGED <<config, testsToRun, failedTests, passedTests, incompleteTests,
                   testTimings, mu, cancelled, sem, wg, mainpc, next, liveLine,
                   info, summary, ret, crashed>>

\* the container process exits by itself, with status zero or not
Exit(i) ==
    /\ ~crashed
    /\ pc[i] = "running"
    /\ \E res \in {"ok", "fail"} : result' = [result EXCEPT ![i] = res]
    /\ pc' = [pc EXCEPT ![i] = "exited"]
    /\ UNCHANGED <<setupErr, reruns, discVars, sanVars, findVars>>
    /\ UNCHANGED <<config, testsToRun, failedTests, passedTests, incompleteTests,
                   testTimings, mu, cancelled, sem, wg, mainpc, next, liveLine,
                   info, summary, ret, crashed>>

\* exec.CommandContext kills the process once ctx is done
Kill(i) ==
    /\ ~crashed
    /\ pc[i] = "running"
    /\ cancelled
    /\ result' = [result EXCEPT ![i] = "killed"]
    /\ pc' = [pc EXCEPT ![i] = "exited"]
    /\ UNCHANGED <<setupErr, reruns, discVars, sanVars, findVars>>
    /\ UNCHANGED <<config, testsToRun, failedTests, passedTests, incompleteTests,
                   testTimings, mu, cancelled, sem, wg, mainpc, next, liveLine,
                   info, summary, ret, crashed>>

\* err != nil: r.mu.Lock() and the updates made under the lock
RecordFail(i) ==
    /\ ~crashed
    /\ pc[i] = "exited"
    /\ RunErr(result[i])
    /\ MutexFree
    /\ mu' = i
    /\ IF IsFirstFailure /\ FailFastLive
       THEN /\ cancelled' = TRUE
            /\ incompleteTests' = incompleteTests \o IncompleteOf(testsToRun[i])
       ELSE UNCHANGED <<cancelled, incompleteTests>>
    /\ failedTests' = AppendOutcome(failedTests, testsToRun[i])
    /\ testTimings' = testTimings \cup {testsToRun[i]}
    /\ pc' = [pc EXCEPT ![i] = "locked"]
    /\ UNCHANGED <<setupErr, reruns, discVars, sanVars, findVars>>
    /\ UNCHANGED <<config, testsToRun, passedTests, sem, wg, mainpc, next,
                   result, liveLine, info, summary, ret, crashed>>

\* err == nil: r.mu.Lock() and the updates made under the lock
RecordPass(i) ==
    /\ ~crashed
    /\ pc[i] = "exited"
    /\ ~RunErr(result[i])
    /\ MutexFree
    /\ mu' = i
    /\ passedTests' = AppendOutcome(passedTests, testsToRun[i])
    /\ testTimings' = testTimings \cup {testsToRun[i]}
    /\ pc' = [pc EXCEPT ![i] = "locked"]
    /\ UNCHANGED <<setupErr, reruns, discVars, sanVars, findVars>>
    /\ UNCHANGED <<config, testsToRun, failedTests, incompleteTests, cancelled,
                   sem, wg, mainpc, next, result, liveLine, info, summary, ret,
                   crashed>>

\* r.mu.Unlock()
Unlock(i) ==
    /\ ~crashed
    /\ pc[i] = "locked"
    /\ mu = i
    /\ mu' = 0
    /\ pc' = [pc EXCEPT ![i] = "unlocked"]
    /\ UNCHANGED <<setupErr, reruns, discVars, sanVars, findVars>>
    /\ UNCHANGED <<config, testsToRun, failedTests, passedTests, incompleteTests,
                   testTimings, cancelled, sem, wg, mainpc, next, result,
                   liveLine, info, summary, ret, crashed>>

\* after Unlock, failure path: if test == r.failedTests[0] { print "--- FAIL" }
ReportFail(i) ==
    /\ ~crashed
    /\ pc[i] = "unlocked"
    /\ RunErr(result[i])
    /\ \E first \in FirstFailedSeenBy(i) :
          liveLine' = [liveLine EXCEPT ![i] =
                          IF testsToRun[i] = first THEN "FAIL" ELSE "none"]
    /\ pc' = [pc EXCEPT ![i] = "returning"]
    /\ UNCHANGED <<setupErr, reruns, discVars, sanVars, findVars>>
    /\ UNCHANGED <<config, testsToRun, failedTests, passedTests, incompleteTests,
                   testTimings, mu, cancelled, sem, wg, mainpc, next, result,
                   info, summary, ret, crashed>>

\* after Unlock, success path: print "--- PASS"
ReportPass(i) ==
    /\ ~crashed
    /\ pc[i] = "unlocked"
    /\ ~RunErr(result[i])
    /\ liveLine' = [liveLine EXCEPT ![i] = "PASS"]
    /\ pc' = [pc EXCEPT ![i] = "returning"]
    /\ UNCHANGED <<setupErr, reruns, discVars, sanVars, findVars>>
    /\ UNCHANGED <<config, testsToRun, failedTests, passedTests, incompleteTests,
                   testTimings, mu, cancelled, sem, wg, mainpc, next, result,
                   info, summary, ret, crashed>>

\* the printed line reads r.testTimings[test] without the mutex; while
\* another unit writes the map the runtime may abort with
\* "fatal error: concurrent map read and map write"
ReportCrash(i) ==
    /\ ~crashed
    /\ pc[i] = "unlocked"
    /\ Racing(i)
    /\ RunErr(result[i]) => testsToRun[i] = failedTests[1]
    /\ crashed' = TRUE
    /\ UNCHANGED <<setupErr, reruns, discVars, sanVars, findVars>>
    /\ UNCHANGED <<config, testsToRun, failedTests, passedTests, incompleteTests,
                   testTimings, mu, cancelled, sem, wg, mainpc, next, pc, result,
                   liveLine, info, summary, ret>>

\* runTest returns; parallel mode runs the deferred <-sem and wg.Done(),
\* sequential mode goes on with the next iteration of the loop
Return_leakOnFail(i) ==
    /\ ~crashed
    /\ pc[i] = "returning"
    /\ pc' = [pc EXCEPT ![i] = "done"]
    /\ IF config.NoParallel
       THEN /\ next' = next + 1
            /\ UNCHANGED <<sem, wg>>
       ELSE /\ sem' = IF RunErr(result[i]) THEN sem ELSE sem \ {i}
            /\ wg' = wg - 1
            /\ next' = next
    /\ UNCHANGED <<setupErr, reruns, discVars, sanVars, findVars>>
    /\ UNCHANGED <<config, testsToRun, failedTests, passedTests, incompleteTests,
                   testTimings, mu, cancelled, mainpc, result, liveLine, info,
                   summary, ret, crashed>>
Return(i) ==
    /\ ~crashed
    /\ pc[i] = "returning"
    /\ pc' = [pc EXCEPT ![i] = "done"]
    /\ IF config.NoParallel
       THEN /\ next' = next + 1
            /\ UNCHANGED <<sem, wg>>
       ELSE /\ sem' = sem \ {i}
            /\ wg' = wg - 1
            /\ next' = next
    /\ UNCHANGED <<setupErr, reruns, discVars, sanVars, findVars>>
    /\ UNCHANGED <<config, testsToRun, failedTests, passedTests, incompleteTests,
                   testTimings, mu, cancelled, mainpc, result, liveLine, info,
                   summary, ret, crashed>>

Next ==
    \/ Setup
    \/ Begin
    \/ Spawn
    \/ Call
    \/ EndDispatch
    \/ Drained
    \/ Summarize
    \/ \E i \in Units : Acquire(i)
    \/ \E i \in Units : Start(i)
    \/ \E i \in Units : Exit(i)
    \/ \E i \in Units : Kill(i)
    \/ \E i \in Units : RecordFail(i)
    \/ \E i \in Units : RecordPass(i)
    \/ \E i \in Units : Unlock(i)
    \/ \E i \in Units : ReportFail(i)
    \/ \E i \in Units : ReportPass(i)
    \/ \E i \in Units : ReportCrash(i)
    \/ \E i \in Units : Return(i)

Spec == Init /\ [][Next]_vars

\* ---------------------------------------------------------------- RunTests called again
\* The caller invokes RunTests once more on the same runner: the locals of
\* the call (ctx, wg, sem, the loop) are new, the runner's fields are what
\* the previous call left.
RunAgain ==
    /\ ~crashed
    /\ mainpc = "done"
    /\ reruns < MaxReruns
    /\ reruns' = reruns + 1
    /\ mainpc' = "idle"
    /\ cancelled' = FALSE
    /\ wg' = 0
    /\ sem' = {}
    /\ next' = 1
    /\ pc' = [i \in Units |-> "new"]
    /\ result' = [i \in Units |-> "none"]
    /\ liveLine' = [i \in Units |-> "none"]
    /\ info' = "none"
    /\ summary' = NoSummary
    /\ ret' = "none"
    /\ UNCHANGED <<config, testsToRun, failedTests, passedTests, incompleteTests,
                   testTimings, mu, crashed, setupErr>>
    /\ UNCHANGED <<discVars, sanVars, findVars>>

RerunNext ==
    \/ Next
    \/ RunAgain

RerunSpec == Init /\ [][RerunNext]_vars

\* ---------------------------------------------------------------- getTestsToRun: inputs
\* config.BuildTags as it can be written: tokens, "," being the separator
\* strings.Split cuts at; <<>> is the empty string
BuildTagValues ==
    {<<>>, <<"e2e">>, <<"linux">>, <<"e2e", ",", "linux">>, <<"e2e", ",">>}

\* paths handed to the walk callback, as tokens
Paths == {<<"pkg", "_test.go">>, <<"pkg", ".go">>, <<"pkg", "_test.go", ".bak">>}

\* comment texts after strings.TrimSpace, as tokens
CommentTexts ==
    {<<"//", "doc">>,
     <<"//go:build", "e2e">>,
     <<"//go:build", "!", "e2e">>,
     <<"//go:build", "e2e", "&&", "linux">>,
     <<"//go:build", "&&">>}

\* a comment group of f.Comments: its comments, and whether it ends before
\* the package keyword (cg.End() < f.Package)
CommentGroups ==
    {[before |-> b, list |-> l] :
        b \in BOOLEAN,
        l \in {<<c>> : c \in CommentTexts}
                \cup {<<c, d>> : c \in CommentTexts,
                                 d \in {<<"//", "doc">>,
                                        <<"//go:build", "&&">>,
                                        <<"//go:build", "!", "e2e">>}}}

\* constraint.IsGoBuild
IsGoBuild(text) == Len(text) > 0 /\ text[1] = "//go:build"

\* the //go:build lines of the comment groups that precede the package clause
RECURSIVE HeaderLines(_)
HeaderLines(groups) ==
    IF groups = <<>> THEN <<>>
    ELSE (IF Head(groups).before
          THEN SelectSeq(Head(groups).list, IsGoBuild)
          ELSE <<>>) \o HeaderLines(Tail(groups))

\* f.Comments of a parsed file: groups in source order, those before the
\* package clause first; the Go toolchain accepts one //go:build line
Headers ==
    {gs \in {<<>>} \cup {<<g>> : g \in CommentGroups}
                   \cup {<<g, h>> : g, h \in CommentGroups} :
        /\ \A k \in 1..(Len(gs) - 1) : gs[k + 1].before => gs[k].before
        /\ Len(HeaderLines(gs)) <= 1}

\* names of declared functions, as characters
FuncNames ==
    {<<"T", "e", "s", "t", "A">>, <<"T", "e", "s", "t", "B">>,
     <<"T", "e", "s">>, <<"t", "e", "s", "t", "A">>}

\* f.Decls entries: a function (Recv == nil), a method (Recv != nil), both
\* *ast.FuncDecl, or a *ast.GenDecl
DeclOptions ==
    {[kind |-> "gen"]} \cup
    {[kind |-> k, name |-> n] : k \in {"func", "method"}, n \in FuncNames}

DeclLists ==
    {<<>>} \cup {<<d>> : d \in DeclOptions}
           \cup {<<d, e>> : d, e \in DeclOptions}

\* ---------------------------------------------------------------- getTestsToRun: pure parts
\* strings.HasSuffix / strings.HasPrefix
HasSuffix(s, suffix) ==
    /\ Len(s) >= Len(suffix)
    /\ SubSeq(s, Len(s) - Len(suffix) + 1, Len(s)) = suffix

HasPrefix(s, prefix) ==
    /\ Len(s) >= Len(prefix)
    /\ SubSeq(s, 1, Len(prefix)) = prefix

TestPrefix == <<"T", "e", "s", "t">>

\* !info.IsDir() && strings.HasSuffix(path, "_test.go")
IsTestSource(isDir, path) == ~isDir /\ HasSuffix(path, <<"_test.go">>)

\* strings.Split(s, ","): the pieces between the separators
RECURSIVE SplitComma(_, _)
SplitComma(s, piece) ==
    IF s = <<>> THEN <<piece>>
    ELSE IF Head(s) = "," THEN <<piece>> \o SplitComma(Tail(s), <<>>)
    ELSE SplitComma(Tail(s), Append(piece, Head(s)))

\* tagSet: the tags set to true from strings.Split(BuildTags, ",")
TagSet(tags) ==
    LET pieces == SplitComma(tags, <<>>)
    IN  {pieces[k] : k \in 1..Len(pieces)}

NoConstraint == [op |-> "nil"]

\* constraint.Parse of a //go:build line
ParseConstraint(text) ==
    LET x == Tail(text)
        isTag(t) == t \in {"e2e", "linux"}
    IN  IF Len(x) = 1 /\ isTag(x[1]) THEN [op |-> "tag", tag |-> x[1]]
        ELSE IF Len(x) = 2 /\ x[1] = "!" /\ isTag(x[2])
             THEN [op |-> "not", tag |-> x[2]]
        ELSE IF Len(x) = 3 /\ isTag(x[1]) /\ x[2] = "&&" /\ isTag(x[3])
             THEN [op |-> "and", tag |-> x[1], right |-> x[3]]
        ELSE [op |-> "error"]

\* buildConstraint.Eval(func(tag) bool { return tagSet[tag] })
Eval(expr, tagSet) ==
    IF expr.op = "tag" THEN <<expr.tag>> \in tagSet
    ELSE IF expr.op = "not" THEN <<expr.tag>> \notin tagSet
    ELSE <<expr.tag>> \in tagSet /\ <<expr.right>> \in tagSet

\* the inner loop over cg.List: it leaves at the first //go:build comment
RECURSIVE FirstGoBuild(_)
FirstGoBuild(list) ==
    IF list = <<>> THEN <<>>
    ELSE IF IsGoBuild(Head(list)) THEN <<Head(list)>>
    ELSE FirstGoBuild(Tail(list))

\* the loop over f.Comments: a group's first //go:build line replaces
\* buildConstraint, a parse error returns, and the loop leaves after the
\* first group that does not end before the package keyword
RECURSIVE ScanComments(_, _)
ScanComments(groups, buildConstraint) ==
    IF groups = <<>> THEN buildConstraint
    ELSE LET cg == Head(groups)
             line == FirstGoBuild(cg.list)
             parsed == IF line = <<>> THEN buildConstraint
                       ELSE ParseConstraint(line[1])
         IN  IF parsed.op = "error" THEN parsed
             ELSE IF ~cg.before THEN parsed
             ELSE ScanComments(Tail(groups), parsed)

\* the build-tag check: "error", "skip" (return nil) or "include"
TagCheck(tags, groups) ==
    IF tags = <<>> THEN "include"
    ELSE LET buildConstraint == ScanComments(groups, NoConstraint)
         IN  IF buildConstraint.op = "error" THEN "error"
             ELSE IF buildConstraint.op # "nil"
                     /\ ~Eval(buildConstraint, TagSet(tags)) THEN "skip"
             ELSE "include"

\* decl.(*ast.FuncDecl) succeeds
IsFuncDecl(decl) == decl.kind \in {"func", "method"}

\* the loop over f.Decls
RECURSIVE AppendTests(_, _)
AppendTests(decls, acc) ==
    IF decls = <<>> THEN acc
    ELSE IF IsFuncDecl(Head(decls)) /\ HasPrefix(Head(decls).name, TestPrefix)
         THEN AppendTests(Tail(decls), Append(acc, Head(decls).name))
         ELSE AppendTests(Tail(decls), acc)

\* what getTestsToRun returns after the walk
DiscoveryResult_partial(acc, err) == [tests |-> acc, err |-> err]
DiscoveryResult(acc, err) ==
    IF err # "none" THEN [tests |-> <<>>, err |-> err]
    ELSE [tests |-> acc, err |-> "none"]

\* ---------------------------------------------------------------- getTestsToRun: what a file is, read off its text
\* "none", "bad", "true" or "false": what a //go:build line says under the
\* configured tags
Verdict(line, tags) ==
    IF line = <<>> THEN "none"
    ELSE LET expr == ParseConstraint(line[1])
         IN  IF expr.op = "error" THEN "bad"
             ELSE IF Eval(expr, TagSet(tags)) THEN "true" ELSE "false"

\* the first //go:build line of the first comment group that follows the
\* package keyword
TrailingLine(groups) ==
    LET after == SelectSeq(groups, LAMBDA g : ~g.before)
    IN  IF after = <<>> THEN <<>> ELSE FirstGoBuild(after[1].list)

\* the names of the top-level test functions of a file, in declaration order
DeclaredTests(decls) ==
    LET fs == SelectSeq(decls, LAMBDA d : d.kind = "func"
                                          /\ HasPrefix(d.name, TestPrefix))
    IN  [k \in 1..Len(fs) |-> fs[k].name]

\* ---------------------------------------------------------------- getTestsToRun: the walk
\* the runner as Setup holds it while it calls getTestsToRun
RunnerInSetup ==
    /\ config = [NoFastFail |-> FALSE, NoParallel |-> FALSE, Parallelism |-> 1]
    /\ testsToRun = <<>>
    /\ failedTests = <<>>
    /\ passedTests = <<>>
    /\ incompleteTests = <<>>
    /\ testTimings = {}
    /\ mu = 0
    /\ cancelled = FALSE
    /\ sem = {}
    /\ wg = 0
    /\ mainpc = "setup"
    /\ next = 1
    /\ pc = <<>>
    /\ result = <<>>
    /\ liveLine = <<>>
    /\ info = "none"
    /\ summary = NoSummary
    /\ ret = "none"
    /\ crashed = FALSE
    /\ setupErr = "pending"
    /\ reruns = 0

DiscoveryInit ==
    /\ RunnerInSetup
    /\ SanitizeIdle
    /\ FindIdle
    /\ BuildTags \in BuildTagValues
    /\ walkpc = "walking"
    /\ walked = 0
    /\ entry = [kind |-> "none"]
    /\ tests = <<>>
    /\ walkErr = "none"
    /\ included = FALSE
    /\ declared = <<>>
    /\ discRet = [tests |-> <<>>, err |-> "pending"]

\* the callback is called with err != nil and returns it
WalkError ==
    /\ walkpc = "walking"
    /\ walked < MaxFiles
    /\ walked' = walked + 1
    /\ entry' = [kind |-> "unreadable"]
    /\ walkErr' = "walk"
    /\ included' = FALSE
    /\ walkpc' = "failed"
    /\ UNCHANGED <<BuildTags, tests, declared, discRet>>
    /\ UNCHANGED <<runVars, sanVars, findVars>>

\* the callback is called for a directory or for a file that is no test
\* source and returns nil
SkipEntry ==
    /\ walkpc = "walking"
    /\ walked < MaxFiles
    /\ \E isDir \in BOOLEAN, path \in Paths :
          /\ ~IsTestSource(isDir, path)
          /\ entry' = [kind |-> IF isDir THEN "dir" ELSE "other"]
    /\ walked' = walked + 1
    /\ included' = FALSE
    /\ UNCHANGED <<BuildTags, walkpc, tests, walkErr, declared, discRet>>
    /\ UNCHANGED <<runVars, sanVars, findVars>>

\* the callback is called for a test source: parser.ParseFile and the
\* build-tag check
ReadTestFile ==
    /\ walkpc = "walking"
    /\ walked < MaxFiles
    /\ walked' = walked + 1
    /\ \E path \in Paths :
          /\ IsTestSource(FALSE, path)
          /\ \/ /\ entry' = [kind |-> "test", parses |-> FALSE,
                             header |-> "none", trailing |-> "none"]
                /\ walkErr' = "parse"
                /\ included' = FALSE
                /\ walkpc' = "failed"
             \/ \E groups \in Headers :
                   LET check == TagCheck(BuildTags, groups) IN
                   /\ entry' = [kind |-> "test", parses |-> TRUE,
                                header |-> Verdict(HeaderLines(groups), BuildTags),
                                trailing |-> Verdict(TrailingLine(groups), BuildTags)]
                   /\ walkErr' = IF check = "error" THEN "constraint" ELSE "none"
                   /\ included' = (check = "include")
                   /\ walkpc' = IF check = "error" THEN "failed"
                                ELSE IF check = "skip" THEN "walking"
                                ELSE "infile"
    /\ UNCHANGED <<BuildTags, tests, declared, discRet>>
    /\ UNCHANGED <<runVars, sanVars, findVars>>

\* the loop over f.Decls of an included file; the callback returns nil
CollectTests ==
    /\ walkpc = "infile"
    /\ \E decls \in DeclLists :
          /\ tests' = AppendTests(decls, tests)
          /\ declared' = declared \o DeclaredTests(decls)
    /\ walkpc' = "walking"
    /\ UNCHANGED <<BuildTags, walked, entry, walkErr, included, discRet>>
    /\ UNCHANGED <<runVars, sanVars, findVars>>

\* filepath.Walk returns, with the callback's error or after the last entry
WalkReturn ==
    /\ walkpc \in {"walking", "failed"}
    /\ discRet' = DiscoveryResult(tests, walkErr)
    /\ walkpc' = "returned"
    /\ UNCHANGED <<BuildTags, walked, entry, tests, walkErr, included, declared>>
    /\ UNCHANGED <<runVars, sanVars, findVars>>

DiscoveryNext ==
    \/ WalkError
    \/ SkipEntry
    \/ ReadTestFile
    \/ CollectTests
    \/ WalkReturn

DiscoverySpec == DiscoveryInit /\ [][DiscoveryNext]_vars

\* ---------------------------------------------------------------- sanitizeContainerName
\* the class [a-zA-Z0-9]
Alnum ==
    { "a", "b", "c", "d", "e", "f", "g", "h", "i", "j", "k", "l", "m",
      "n", "o", "p", "q", "r", "s", "t", "u", "v", "w", "x", "y", "z",
      "A", "B", "C", "D", "E", "F", "G", "H", "I", "J", "K", "L", "M",
      "N", "O", "P", "Q", "R", "S", "T", "U", "V", "W", "X", "Y", "Z",
      "0", "1", "2", "3", "4", "5", "6", "7", "8", "9" }

\* the class [a-zA-Z0-9_.-]
NameChars == Alnum \cup {"_", ".", "-"}

\* longest name kept in front of the suffix
NameLimit == 20

\* rand.Intn(RandRange) yields 0 .. RandRange - 1
RandRange == 65536

RandValues == {0, 171, 4096, RandRange - 1}

\* sample characters of a test name: letters, a digit, the three other
\* allowed characters, and characters the first regexp replaces (a slash of
\* a subtest name, a blank, a non-ASCII rune)
SampleChars == {"a", "Z", "7", "_", ".", "-", "/", " ", "é"}

RunChars == {"a", "-", "/"}

RECURSIVE Repeat(_, _)
Repeat(c, k) == IF k = 0 THEN <<>> ELSE <<c>> \o Repeat(c, k - 1)

Heads == UNION {[1..n -> SampleChars] : n \in 0..MaxHead}

\* test names: some leading characters followed by a run of one character,
\* from the empty string up to more than NameLimit characters
SanitizeInputs == {h \o Repeat(c, k) : h \in Heads, c \in RunChars, k \in 0..MaxRun}

\* reg.ReplaceAllString(testName, "-"): every rune outside the class
\* becomes one "-"
ReplaceAll(str) ==
    [k \in 1..Len(str) |-> IF str[k] \in NameChars THEN str[k] ELSE "-"]

\* `^[a-zA-Z0-9]` matches
StartsAlnum(str) == Len(str) > 0 /\ str[1] \in Alnum

E2EPrefix == <<"e", "2", "e", "-">>

Prefixed(str) == IF StartsAlnum(str) THEN str ELSE E2EPrefix \o str

Truncated_keepAll(str) == str

Truncated(str) == IF Len(str) > NameLimit THEN SubSeq(str, 1, NameLimit) ELSE str

HexDigits == << "0", "1", "2", "3", "4", "5", "6", "7", "8", "9", "a", "b", "c", "d", "e", "f" >>

\* fmt.Sprintf("%04x", n) for n below 16^4
Hex4(n) ==
    << HexDigits[(n \div 4096) + 1], HexDigits[((n \div 256) % 16) + 1],
       HexDigits[((n \div 16) % 16) + 1], HexDigits[(n % 16) + 1] >>

\* fmt.Sprintf("e2e-%s-%s", name, suffix)
FormatName(str, suf) == E2EPrefix \o str \o <<"-">> \o suf

\* runTest calls sanitizeContainerName(test)
SanitizeInit ==
    /\ RunnerInSetup
    /\ DiscoveryIdle
    /\ FindIdle
    /\ testName \in SanitizeInputs
    /\ name = <<>>
    /\ rnd = -1
    /\ nameSuffix = <<>>
    /\ containerName = <<>>
    /\ sanpc = "called"
    /\ prevCall = NoCall
    /\ unitTests = <<>>
    /\ containers = <<>>

ReplaceChars ==
    /\ sanpc = "called"
    /\ name' = ReplaceAll(testName)
    /\ sanpc' = "replaced"
    /\ UNCHANGED <<testName, rnd, nameSuffix, containerName, prevCall>>
    /\ UNCHANGED <<unitTests, containers>>
    /\ UNCHANGED <<runVars, discVars, findVars>>

PrefixName ==
    /\ sanpc = "replaced"
    /\ name' = Prefixed(name)
    /\ sanpc' = "prefixed"
    /\ UNCHANGED <<testName, rnd, nameSuffix, containerName, prevCall>>
    /\ UNCHANGED <<unitTests, containers>>
    /\ UNCHANGED <<runVars, discVars, findVars>>

TruncateName ==
    /\ sanpc = "prefixed"
    /\ name' = Truncated(name)
    /\ sanpc' = "truncated"
    /\ UNCHANGED <<testName, rnd, nameSuffix, containerName, prevCall>>
    /\ UNCHANGED <<unitTests, containers>>
    /\ UNCHANGED <<runVars, discVars, findVars>>

AddSuffix ==
    /\ sanpc = "truncated"
    /\ \E n \in RandValues :
          /\ rnd' = n
          /\ nameSuffix' = Hex4(n)
          /\ containerName' = FormatName(name, Hex4(n))
    /\ sanpc' = "returned"
    /\ UNCHANGED <<testName, name, prevCall>>
    /\ UNCHANGED <<unitTests, containers>>
    /\ UNCHANGED <<runVars, discVars, findVars>>

\* a second unit with the same identifier: runTest calls the function again
CallAgain ==
    /\ sanpc = "returned"
    /\ prevCall = NoCall
    /\ prevCall' = [rnd |-> rnd, out |-> containerName]
    /\ name' = <<>>
    /\ rnd' = -1
    /\ nameSuffix' = <<>>
    /\ containerName' = <<>>
    /\ sanpc' = "called"
    /\ UNCHANGED testName
    /\ UNCHANGED <<unitTests, containers>>
    /\ UNCHANGED <<runVars, discVars, findVars>>

SanitizeNext ==
    \/ ReplaceChars
    \/ PrefixName
    \/ TruncateName
    \/ AddSuffix
    \/ CallAgain

SanitizeSpec == SanitizeInit /\ [][SanitizeNext]_vars

\* ---------------------------------------------------------------- container names of concurrent units
\* sanitizeContainerName(testName) when rand.Intn returns n
SanitizeContainerName(str, n) ==
    FormatName(Truncated(Prefixed(ReplaceAll(str))), Hex4(n))

\* identifiers as getTestsToRun returns them (names of Go functions): two
\* short ones, two that differ only in a non-ASCII letter, and two that
\* agree on their first NameLimit characters
IdentifierSamples ==
    {<<"T", "e", "s", "t", "A">>,
     <<"T", "e", "s", "t", "B">>,
     <<"T", "e", "s", "t", "é">>,
     <<"T", "e", "s", "t", "ü">>,
     <<"T", "e", "s", "t">> \o Repeat("x", NameLimit - 4) \o <<"A">>,
     <<"T", "e", "s", "t">> \o Repeat("x", NameLimit - 4) \o <<"B">>}

\* two units of one parallel run, neither with a container yet
NamingInit ==
    /\ RunnerInSetup
    /\ DiscoveryIdle
    /\ FindIdle
    /\ testName = <<>>
    /\ name = <<>>
    /\ rnd = -1
    /\ nameSuffix = <<>>
    /\ containerName = <<>>
    /\ sanpc = "idle"
    /\ prevCall = NoCall
    /\ unitTests \in [1..2 -> IdentifierSamples]
    /\ containers = <<<<>>, <<>>>>

\* runTest of unit u: docker run --rm --name sanitizeContainerName(test)
NameContainer(u) ==
    /\ containers[u] = <<>>
    /\ \E n \in RandValues :
          containers' = [containers EXCEPT ![u] = SanitizeContainerName(unitTests[u], n)]
    /\ UNCHANGED <<testName, name, rnd, nameSuffix, containerName, sanpc,
                   prevCall, unitTests>>
    /\ UNCHANGED <<runVars, discVars, findVars>>

\* the process of unit u ends and --rm removes its container
RemoveContainer(u) ==
    /\ containers[u] # <<>>
    /\ containers' = [containers EXCEPT ![u] = <<>>]
    /\ UNCHANGED <<testName, name, rnd, nameSuffix, containerName, sanpc,
                   prevCall, unitTests>>
    /\ UNCHANGED <<runVars, discVars, findVars>>

NamingNext ==
    \/ \E u \in 1..2 : NameContainer(u)
    \/ \E u \in 1..2 : RemoveContainer(u)

NamingSpec == NamingInit /\ [][NamingNext]_vars

\* ---------------------------------------------------------------- FindConfigFiles
\* file names as tokens; a leading "." makes a name hidden
DotName == <<".">>
HiddenName == <<".", "cache">>
CustomYaml == <<"custom", ".", "yaml">>
E2EYaml == <<"e2e", ".", "yaml">>
SubName == <<"sub">>

\* the names a directory can hold, in the lexical order filepath.Walk
\* visits them
EntryNames == <<HiddenName, CustomYaml, E2EYaml, SubName>>

\* os.FileInfo of Lstat: a directory, a regular file, or a symbolic link
EntryKinds == {"dir", "file", "symlink"}

\* the -f flag: a bare name, another name, or a path to the file
FileNameValues == {<<E2EYaml>>, <<CustomYaml>>, <<<<"conf">>, E2EYaml>>}

\* the current directory, a directory, a hidden directory
BaseDirValues == {<<DotName>>, <<<<"repo">>>>, <<HiddenName>>}

\* filepath.Base of a path given by its elements
Base(path) == IF Len(path) = 0 THEN DotName ELSE path[Len(path)]

\* filepath.Join(dir, nm): Clean drops a leading "."
Join(dir, nm) == IF dir = <<DotName>> THEN <<nm>> ELSE Append(dir, nm)

\* filepath.Rel(base, path) for a path at or below base
Rel(base, path) ==
    IF path = base THEN <<DotName>>
    ELSE IF base = <<DotName>> THEN path
    ELSE SubSeq(path, Len(base) + 1, Len(path))

\* the callback's result for an entry whose git check-ignore exit status is
\* zero exactly when e.ignored
CallbackResult_enterHidden(e, path) ==
    IF HasPrefix(e.name, DotName) /\ path # baseDir
    THEN "nil"
    ELSE IF e.ignored
         THEN IF e.kind = "dir" THEN "SkipDir" ELSE "nil"
         ELSE IF e.kind # "dir" /\ e.name = Base(fileName) THEN "append" ELSE "nil"

CallbackResult(e, path) ==
    IF HasPrefix(e.name, DotName) /\ path # baseDir
    THEN IF e.kind = "dir" THEN "SkipDir" ELSE "nil"
    ELSE IF e.ignored
         THEN IF e.kind = "dir" THEN "SkipDir" ELSE "nil"
         ELSE IF e.kind # "dir" /\ e.name = Base(fileName) THEN "append" ELSE "nil"

\* what is to be reported, read off the tree: the entry is below no hidden
\* or ignored directory and is neither hidden nor ignored itself
Reportable(e, parent) ==
    /\ ~parent.blocked
    /\ e.name[1] # "."
    /\ ~e.ignored

\* the entry's name is the last element of the configured name and the
\* entry is not a directory
IsConfigEntry(e) == e.kind # "dir" /\ e.name = fileName[Len(fileName)]

\* the narrow reading: a regular file named like the whole configured name
IsStrictConfigEntry(e) == e.kind = "file" /\ <<e.name>> = fileName

\* dirStack after an entry of directory dirStack[d]: deeper directories are
\* left, and a directory entry is entered
Descend(d, k, e, skip) ==
    LET parent == dirStack[d]
        kept == [SubSeq(dirStack, 1, d) EXCEPT ![d].last = k]
        dir == [path |-> Join(parent.path, e.name),
                rel |-> Append(parent.rel, e.name),
                last |-> 0,
                skipped |-> skip,
                blocked |-> ~Reportable(e, parent)]
    IN  IF e.kind = "dir" THEN Append(kept, dir) ELSE kept

\* the tree's side of an entry of directory dirStack[d]
TreeStep(d, k, e) ==
    LET parent == dirStack[d]
        rel == Append(parent.rel, e.name)
    IN  /\ visited' = visited + 1
        /\ expectedFiles' = IF Reportable(e, parent) /\ IsConfigEntry(e)
                            THEN Append(expectedFiles, rel)
                            ELSE expectedFiles
        /\ strictFiles' = IF Reportable(e, parent) /\ IsStrictConfigEntry(e)
                          THEN Append(strictFiles, rel)
                          ELSE strictFiles

\* main calls NewFileWalker(configFile, verbosity, baseDir).FindConfigFiles()
FindInit ==
    /\ RunnerInSetup
    /\ DiscoveryIdle
    /\ SanitizeIdle
    /\ fileName \in FileNameValues
    /\ baseDir \in BaseDirValues
    /\ configFiles = <<>>
    /\ findRet = NotReturned
    /\ fwpc = "start"
    /\ dirStack = <<>>
    /\ visited = 0
    /\ expectedFiles = <<>>
    /\ strictFiles = <<>>

\* the callback's first call: the root, with path = w.baseDir
VisitRoot ==
    /\ fwpc = "start"
    /\ \E ign \in BOOLEAN :
          LET e == [name |-> Base(baseDir), kind |-> "dir", ignored |-> ign]
          IN  dirStack' = <<[path |-> baseDir,
                             rel |-> <<>>,
                             last |-> 0,
                             skipped |-> CallbackResult(e, baseDir) = "SkipDir",
                             blocked |-> ign]>>
    /\ fwpc' = "walking"
    /\ UNCHANGED <<fileName, baseDir, configFiles, findRet, visited,
                   expectedFiles, strictFiles>>
    /\ UNCHANGED <<runVars, discVars, sanVars>>

\* the callback is called for the next entry of a directory Walk reads
WalkFn ==
    /\ fwpc = "walking"
    /\ visited < MaxEntries
    /\ \E d \in 1..Len(dirStack) :
       \E k \in 1..Len(EntryNames), kind \in EntryKinds, ign \in BOOLEAN :
          LET parent == dirStack[d]
              e == [name |-> EntryNames[k], kind |-> kind, ignored |-> ign]
              path == Join(parent.path, e.name)
              res == CallbackResult(e, path)
          IN  /\ ~parent.skipped
              /\ k > parent.last
              /\ configFiles' = IF res = "append"
                                THEN Append(configFiles, Rel(baseDir, path))
                                ELSE configFiles
              /\ dirStack' = Descend(d, k, e, res = "SkipDir")
              /\ TreeStep(d, k, e)
    /\ UNCHANGED <<fileName, baseDir, findRet, fwpc>>
    /\ UNCHANGED <<runVars, discVars, sanVars>>

\* the next entry lies in a directory Walk does not read: the callback is
\* not called for it
NotVisited ==
    /\ fwpc = "walking"
    /\ visited < MaxEntries
    /\ \E d \in 1..Len(dirStack) :
       \E k \in 1..Len(EntryNames), kind \in EntryKinds, ign \in BOOLEAN :
          LET parent == dirStack[d]
              e == [name |-> EntryNames[k], kind |-> kind, ignored |-> ign]
          IN  /\ parent.skipped
              /\ k > parent.last
              /\ dirStack' = Descend(d, k, e, TRUE)
              /\ TreeStep(d, k, e)
    /\ UNCHANGED <<fileName, baseDir, configFiles, findRet, fwpc>>
    /\ UNCHANGED <<runVars, discVars, sanVars>>

\* Lstat or ReadDir fails: the callback gets err and returns it, Walk stops
WalkFails ==
    /\ fwpc = "walking"
    /\ findRet' = [files |-> configFiles, err |-> "walk"]
    /\ fwpc' = "returned"
    /\ UNCHANGED <<fileName, baseDir, configFiles, dirStack, visited,
                   expectedFiles, strictFiles>>
    /\ UNCHANGED <<runVars, discVars, sanVars>>

\* the tree has no further entry: Walk returns nil
FindReturn ==
    /\ fwpc = "walking"
    /\ findRet' = [files |-> configFiles, err |-> "nil"]
    /\ fwpc' = "returned"
    /\ UNCHANGED <<fileName, baseDir, configFiles, dirStack, visited,
                   expectedFiles, strictFiles>>
    /\ UNCHANGED <<runVars, discVars, sanVars>>

FindNext ==
    \/ VisitRoot
    \/ WalkFn
    \/ NotVisited
    \/ WalkFails
    \/ FindReturn

FindSpec == FindInit /\ [][FindNext]_vars

\* ---------------------------------------------------------------- shared vocabulary of the properties
RunEnded == mainpc = "done"

FailFastRunWithFailure == RunEnded /\ ~config.NoFastFail /\ Len(failedTests) > 0

\* units that are inside runTest: admitted by the semaphore (or called by the
\* sequential loop) and not yet returned
InsideRunTest ==
    {i \in Units : pc[i] \in {"admitted", "running", "exited", "locked",
                               "unlocked", "returning"}}

LiveFailUnits == {i \in Units : liveLine[i] = "FAIL"}

\* units whose outcome has been appended to the passed or the failed list
Recorded ==
    {i \in Units : pc[i] \in {"locked", "unlocked", "returning", "done"}}

\* s can be obtained from t by deleting elements
RECURSIVE IsSubsequence(_, _)
IsSubsequence(s, t) ==
    IF Len(s) = 0 THEN TRUE
    ELSE IF Len(t) = 0 THEN FALSE
    ELSE IF Head(s) = Head(t) THEN IsSubsequence(Tail(s), Tail(t))
    ELSE IsSubsequence(s, Tail(t))

\* s is an initial segment of t
IsPrefix(s, t) == Len(s) <= Len(t) /\ SubSeq(t, 1, Len(s)) = s

\* how often x occurs in s
Count(x, s) == Cardinality({k \in 1..Len(s) : s[k] = x})

\* units that hold the mutex according to their position
LockedUnits == {i \in Units : pc[i] = "locked"}

\* the run of examples/simple-failing: TestExample1 exits with status zero
\* when it is left to run, TestExample2 fails; fail-fast, two or more slots
SimpleFailingRun ==
    /\ RunEnded
    /\ testsToRun = <<"TestExample1", "TestExample2">>
    /\ ~config.NoFastFail
    /\ ~config.NoParallel
    /\ config.Parallelism >= 2
    /\ result[1] # "fail"
    /\ result[2] # "ok"

\* ---------------------------------------------------------------- C1
\* C1: in parallel mode with concurrency limit N >= 1, the number of units
\* inside runTest (between acquiring and releasing a semaphore slot) never
\* exceeds N.
C1_ConcurrencyBound ==
    (~config.NoParallel /\ config.Parallelism >= 1)
        => Cardinality(InsideRunTest) <= config.Parallelism

\* N units run at once while a further unit is held back by the semaphore
C1_Witness ==
    /\ ~config.NoParallel
    /\ config.Parallelism = 2
    /\ Cardinality({i \in Units : pc[i] = "running"}) = 2
    /\ \E i \in Units : pc[i] = "waiting"

\* ---------------------------------------------------------------- C2
\* C2: RunTests returns an error containing "tests failed" when the run ends
\* with a non-empty failed list, and nil when the failed list is empty.
C2_TestsFailedError ==
    RunEnded => ret = (IF Len(failedTests) > 0 THEN "tests failed" ELSE "nil")

\* ---------------------------------------------------------------- C3
\* C3: with fail-fast enabled and a failing test, at the end of the run the
\* passed, failed and incomplete lists are pairwise disjoint and every
\* discovered identifier occurs exactly once in their concatenation.
C3_ListsDisjoint ==
    FailFastRunWithFailure =>
        LET all == passedTests \o failedTests \o incompleteTests IN
        /\ SeqSet(passedTests) \cap SeqSet(failedTests) = {}
        /\ SeqSet(passedTests) \cap SeqSet(incompleteTests) = {}
        /\ SeqSet(failedTests) \cap SeqSet(incompleteTests) = {}
        /\ \A t \in SeqSet(testsToRun) :
              Cardinality({k \in 1..Len(all) : all[k] = t}) = 1

\* ---------------------------------------------------------------- C4
\* C4: with fail-fast enabled and a failing test, at the end of the run the
\* passed identifiers, the first failed identifier and the incomplete
\* identifiers together are exactly the discovered identifiers.
C4_UnionIsDiscovered ==
    FailFastRunWithFailure =>
        SeqSet(passedTests) \cup {failedTests[1]} \cup SeqSet(incompleteTests)
            = SeqSet(testsToRun)

\* a fail-fast run that ended with a pass, a failure and an abandoned test
C4_Witness ==
    /\ FailFastRunWithFailure
    /\ Len(passedTests) > 0
    /\ Len(incompleteTests) > 0
    /\ Cardinality(SeqSet(testsToRun)) >= 3

\* ---------------------------------------------------------------- C5
\* C5: with fail-fast enabled and a failing test, the summary prints exactly
\* one FAIL entry, for the first failing identifier.
C5_OneFailEntry ==
    FailFastRunWithFailure => summary.fail = <<failedTests[1]>>

\* ---------------------------------------------------------------- C6
\* C6: with fail-fast enabled and a failing test, the summary prints one STOP
\* entry for every identifier of the incomplete list.
C6_StopEntries ==
    FailFastRunWithFailure => summary.stop = incompleteTests

\* ---------------------------------------------------------------- C7
\* C7: with fail-fast disabled and two or more failing tests, the summary
\* prints a FAIL entry for every failing identifier.
C7_AllFailEntries ==
    (RunEnded /\ config.NoFastFail /\ Len(failedTests) >= 2)
        => summary.fail = failedTests

\* ---------------------------------------------------------------- C8
\* C8: with fail-fast disabled the incomplete list is empty in every
\* reachable state.
C8_NoIncompleteWithoutFailFast ==
    config.NoFastFail => incompleteTests = <<>>

\* fail-fast disabled, two failures recorded while a third unit is pending
C8_Witness ==
    /\ config.NoFastFail
    /\ Len(failedTests) >= 2
    /\ \E i \in Units : pc[i] \in {"waiting", "admitted", "running"}

\* ---------------------------------------------------------------- C9
\* C9: with fail-fast enabled and a failing test, exactly one unit of the
\* whole run prints the live "--- FAIL" block.
C9_OneLiveFail ==
    FailFastRunWithFailure => Cardinality(LiveFailUnits) = 1

\* ---------------------------------------------------------------- C10
\* C10: when every unit succeeds the summary is PASS, the passed list has
\* one entry per discovered test and the failed and incomplete lists are
\* empty.
C10_AllPass ==
    (RunEnded /\ \A i \in Units : result[i] = "ok") =>
        /\ summary.header = "PASS"
        /\ Len(passedTests) = Len(testsToRun)
        /\ failedTests = <<>>
        /\ incompleteTests = <<>>

\* a parallel run of several tests that all exited with status zero
C10_Witness ==
    /\ RunEnded
    /\ Len(testsToRun) >= 2
    /\ \A i \in Units : result[i] = "ok"
    /\ ~config.NoParallel

\* ---------------------------------------------------------------- C11
\* C11: in a run with zero discovered tests RunTests logs that there are no
\* tests to run, has no unit to start, is never blocked, and ends returning
\* nil after a PASS summary without PASS, FAIL or STOP entries.
C11_NoTests ==
    (setupErr = "none" /\ Len(testsToRun) = 0) =>
        /\ pc = <<>>
        /\ mainpc \in {"dispatching", "draining", "summarizing", "done"}
              => info = "No tests to run"
        /\ ~RunEnded => ENABLED (Begin \/ EndDispatch \/ Drained \/ Summarize)
        /\ RunEnded =>
              /\ summary = [header |-> "PASS", pass |-> <<>>, fail |-> <<>>,
                            stop |-> <<>>]
              /\ ret = "nil"

\* a parallel run over an empty discovery result that has ended
C11_Witness ==
    /\ setupErr = "none"
    /\ Len(testsToRun) = 0
    /\ ~config.NoParallel
    /\ RunEnded

\* ---------------------------------------------------------------- C12
\* C12: the header of the summary is PASS exactly when the failed list is
\* empty at the time the summary is printed, and FAIL otherwise.
C12_HeaderIffNoFailure ==
    RunEnded =>
        /\ summary.header \in {"PASS", "FAIL"}
        /\ summary.header = "PASS" <=> Len(failedTests) = 0

\* a run that ended with a FAIL header although some test passed
C12_Witness ==
    /\ RunEnded
    /\ summary.header = "FAIL"
    /\ Len(passedTests) > 0

\* ---------------------------------------------------------------- C13
\* C13: in sequential mode at most one unit is inside runTest, a unit is
\* started only after every earlier unit has returned, and the passed and
\* the failed list are subsequences of the discovery order.
C13_SequentialOrder ==
    config.NoParallel =>
        /\ Cardinality(InsideRunTest) <= 1
        /\ \A i \in Units :
              pc[i] # "new" => \A j \in 1..(i - 1) : pc[j] = "done"
        /\ IsSubsequence(passedTests, testsToRun)
        /\ IsSubsequence(failedTests, testsToRun)

\* a sequential run in which the third unit runs after a pass and a failure
C13_Witness ==
    /\ config.NoParallel
    /\ Len(testsToRun) = 3
    /\ pc[3] = "running"
    /\ Len(passedTests) = 1
    /\ Len(failedTests) = 1

C15_SetupFailureAborts ==
    setupErr \in {"image", "discovery"} =>
        /\ mainpc = "exit"
        /\ testsToRun = <<>>
        /\ pc = <<>>
        /\ info = "none"
        /\ summary = NoSummary
        /\ ret = "none"

\* Setup has failed at the image build and the CLI has returned
C15_Witness ==
    /\ setupErr = "image"
    /\ mainpc = "exit"

\* ---------------------------------------------------------------- C16
\* C16: the fail-fast side effects run at most once in a run: the
\* incomplete list is extended, and cancel is called by a unit, only by the
\* step that records the first failure.
C16_FailFastOnce ==
    [][/\ incompleteTests' # incompleteTests
           => (Len(failedTests) = 0 /\ Len(failedTests') = 1)
       /\ (~cancelled /\ cancelled' /\ mainpc' # "done")
           => (Len(failedTests) = 0 /\ Len(failedTests') = 1)]_vars

\* fail-fast: a second failure has been recorded after the first one had
\* filled the incomplete list
C16_Witness ==
    /\ ~config.NoFastFail
    /\ Len(failedTests) >= 2
    /\ Len(incompleteTests) >= 1
    /\ \E i \in Units : pc[i] = "locked" /\ RunErr(result[i])

\* ---------------------------------------------------------------- C17
\* C17: a recorded unit is in the passed list exactly when its process
\* exited with status zero; a non-zero exit, a start error and a kill by
\* cancellation put it into the failed list.
C17_PassedIffExitZero ==
    /\ Len(passedTests) = Cardinality({i \in Recorded : result[i] = "ok"})
    /\ Len(failedTests) =
          Cardinality({i \in Recorded :
                          result[i] \in {"fail", "notstarted", "killed"}})
    /\ \A i \in Recorded :
          IF result[i] = "ok"
          THEN InSeq(testsToRun[i], passedTests)
          ELSE InSeq(testsToRun[i], failedTests)
    /\ \A t \in SeqSet(passedTests) :
          \E i \in Recorded : testsToRun[i] = t /\ result[i] = "ok"
    /\ \A t \in SeqSet(failedTests) :
          \E i \in Recorded : testsToRun[i] = t /\ result[i] # "ok"

\* after a failure one unit was killed by the cancellation and one exited
\* with status zero, and all three outcomes are recorded
C17_Witness ==
    /\ \E i \in Recorded : result[i] = "fail"
    /\ \E i \in Recorded : result[i] = "killed"
    /\ \E i \in Recorded : result[i] = "ok"

C19_IncludedIffTagExpressionHolds ==
    (/\ BuildTags # <<>>
     /\ entry.kind = "test"
     /\ entry.parses
     /\ walkErr = "none")
        => (included <=> entry.header \in {"none", "true"})

\* ---------------------------------------------------------------- C20
\* C20: a successful getTestsToRun returns exactly the names of the
\* top-level functions named Test... of the included files, once per
\* declaration, in walk order and declaration order.
C20_ExactlyTestFunctions ==
    (walkpc = "returned" /\ discRet.err = "none") => discRet.tests = declared

\* ---------------------------------------------------------------- C23
\* C23: the step that records the first failure with fail-fast enabled
\* leaves in the incomplete list exactly the discovered identifiers that are
\* then neither passed nor failed nor the failing test, in discovery order.
C23_IncompleteAtFirstFailure ==
    [][\A i \in Units :
          (/\ ~config.NoFastFail
           /\ pc[i] = "exited"
           /\ pc'[i] = "locked"
           /\ RunErr(result[i])
           /\ Len(failedTests) = 0)
          => /\ IsSubsequence(incompleteTests', testsToRun)
             /\ \A t \in SeqSet(testsToRun) :
                   Count(t, incompleteTests') =
                       IF t # testsToRun[i] /\ ~InSeq(t, passedTests)
                                            /\ ~InSeq(t, failedTests)
                       THEN Count(t, testsToRun)
                       ELSE 0]_vars

\* the first failure has just been recorded, after a pass, and one
\* identifier went to the incomplete list
C23_Witness ==
    /\ ~config.NoFastFail
    /\ Len(failedTests) = 1
    /\ Len(passedTests) = 1
    /\ Len(incompleteTests) = 1
    /\ \E i \in Units : pc[i] = "locked" /\ RunErr(result[i])

\* ---------------------------------------------------------------- C24
\* C24: the passed and the failed list only grow at their end: every step
\* keeps the old list as an initial segment of the new one, also after
\* cancellation.
C24_AppendOnly ==
    [][/\ IsPrefix(passedTests, passedTests')
       /\ IsPrefix(failedTests, failedTests')]_vars

\* after the cancellation a pass and two failures are recorded
C24_Witness ==
    /\ cancelled
    /\ ~RunEnded
    /\ Len(passedTests) >= 1
    /\ Len(failedTests) >= 2

\* ---------------------------------------------------------------- C25
\* C25: a step that changes the passed, failed or incomplete list or the
\* timing map is made by a unit that took the free mutex and holds it
\* afterwards; at most one unit holds it, and a unit whose process is
\* running does not.
C25_MutationsUnderMutex ==
    [][/\ Cardinality(LockedUnits') <= 1
       /\ \A i \in Units : (pc'[i] = "locked") <=> (mu' = i)
       /\ (\/ passedTests' # passedTests
           \/ failedTests' # failedTests
           \/ incompleteTests' # incompleteTests
           \/ testTimings' # testTimings)
          => (mu = 0 /\ mu' \in Units /\ pc'[mu'] = "locked")]_vars

\* one unit holds the mutex after recording its outcome while a second
\* one, whose process has exited, waits for it
C25_Witness ==
    /\ mu \in Units
    /\ Len(passedTests) + Len(failedTests) >= 1
    /\ \E j \in Units : j # mu /\ pc[j] = "exited"

\* ---------------------------------------------------------------- C26
\* C26: in parallel mode printSummary starts only when every worker has
\* returned: no unit is waiting, running or unrecorded, no slot is held.
C26_SummaryAfterWorkers ==
    (~config.NoParallel /\ mainpc \in {"summarizing", "done"}) =>
        /\ \A i \in Units : pc[i] = "done"
        /\ wg = 0
        /\ sem = {}

\* a parallel fail-fast run about to print its summary after a unit was
\* cancelled
C26_Witness ==
    /\ ~config.NoParallel
    /\ mainpc = "summarizing"
    /\ \E i \in Units : result[i] \in {"killed", "notstarted"}

\* ---------------------------------------------------------------- C27
\* C27 as stated: in parallel mode, while N units hold the N slots, no
\* further worker has been created.
C27_NoWorkerBeyondSlots ==
    (/\ ~config.NoParallel
     /\ config.Parallelism >= 1
     /\ Cardinality(sem) = config.Parallelism)
        => \A i \in Units : pc[i] # "waiting"

\* C27 amended: in parallel mode, while N units hold the N slots, the
\* dispatch loop still creates the next worker, and every worker without a
\* slot is blocked at the semaphore.
C27_WorkerBlocksNotLoop ==
    (/\ ~config.NoParallel
     /\ config.Parallelism >= 1
     /\ Cardinality(sem) = config.Parallelism
     /\ ~crashed)
        => /\ (mainpc = "dispatching" /\ next \in Units) => ENABLED Spawn
           /\ \A i \in Units : pc[i] = "waiting" => ~ENABLED Acquire(i)

\* every slot is held, one worker waits at the semaphore and the loop has a
\* further unit to dispatch
C27_Witness ==
    /\ ~config.NoParallel
    /\ config.Parallelism >= 1
    /\ Cardinality(sem) = config.Parallelism
    /\ \E i \in Units : pc[i] = "waiting"
    /\ mainpc = "dispatching"
    /\ next \in Units

\* ---------------------------------------------------------------- C28
\* C28 as stated: in parallel mode no unit is past the admission gate while
\* a unit earlier in discovery order still waits for a slot.
C28_AdmissionInDiscoveryOrder ==
    ~config.NoParallel =>
        \A i, j \in Units :
            (i < j /\ pc[i] = "waiting") => pc[j] \in {"new", "waiting"}

\* C28 amended: in parallel mode workers are created in discovery order: a
\* unit has a worker only if every earlier unit has one.
C28_SpawnInDiscoveryOrder ==
    ~config.NoParallel =>
        \A i, j \in Units : (i < j /\ pc[j] # "new") => pc[i] # "new"

\* the second unit runs while the first one still waits for a slot
C28_Witness ==
    /\ ~config.NoParallel
    /\ Len(testsToRun) >= 2
    /\ pc[1] = "waiting"
    /\ pc[2] = "running"

\* ---------------------------------------------------------------- C29
\* C29: at the end of a run every unit has returned and every discovered
\* identifier occurs in passed and failed together as often as it was
\* discovered: once per unit.
C29_RecordedExactlyOnce ==
    RunEnded =>
        /\ \A i \in Units : pc[i] = "done"
        /\ Len(passedTests) + Len(failedTests) = Len(testsToRun)
        /\ \A t \in SeqSet(testsToRun) \cup SeqSet(passedTests \o failedTests) :
              Count(t, passedTests \o failedTests) = Count(t, testsToRun)

\* a parallel fail-fast run of three tests ended with a pass, the failure
\* and a cancelled unit
C29_Witness ==
    /\ RunEnded
    /\ ~config.NoParallel
    /\ ~config.NoFastFail
    /\ Len(testsToRun) = 3
    /\ Len(passedTests) = 1
    /\ Len(failedTests) = 2

\* ---------------------------------------------------------------- C30
\* the scheduler under the Go runtime's scheduling: a runnable goroutine is
\* eventually run and a started process eventually exits or is killed
FairSpec == Spec /\ WF_vars(Next)

\* unit i is in flight after the cancellation: admitted, or its process runs
InFlightCancelled(i) ==
    IF i \in Units THEN cancelled /\ pc[i] \in {"admitted", "running"} ELSE FALSE

\* unit i has returned, a failure is recorded for it and its slot is free
ReturnedFailed(i) ==
    IF i \in Units
    THEN pc[i] = "done" /\ RunErr(result[i]) /\ i \notin sem
    ELSE FALSE

\* C30: once the context is cancelled, every unit that is in flight
\* (admitted, or with its process running) eventually has returned with a
\* failure recorded for it and its slot released.
C30_CancelledUnitsFailAndReturn ==
    \A i \in 1..MaxTests : InFlightCancelled(i) ~> ReturnedFailed(i)

\* ---------------------------------------------------------------- C21
\* C21: whatever the input, the name sanitizeContainerName returns starts
\* with an alphanumeric character, consists of characters of [A-Za-z0-9_.-]
\* and is at most 4 + 20 + 5 characters long; a second call with the same
\* input that draws the same random value returns the same name.
C21_ValidContainerName ==
    sanpc = "returned" =>
        /\ Len(containerName) >= 1
        /\ containerName[1] \in Alnum
        /\ \A k \in 1..Len(containerName) : containerName[k] \in NameChars
        /\ Len(containerName) <= 4 + 20 + 5
        /\ (prevCall.rnd = rnd => prevCall.out = containerName)

\* the second call for a long input that starts with a character outside
\* the class has returned, with the random value of the first call
C21_Witness ==
    /\ sanpc = "returned"
    /\ Len(testName) > 20
    /\ testName[1] \notin NameChars
    /\ prevCall.rnd = rnd

\* ---------------------------------------------------------------- C22
\* C22 as stated: a walk without error returns exactly the paths, relative
\* to the base directory, of the regular files whose name equals the
\* configured file name and that are neither hidden nor ignored nor below a
\* hidden or ignored directory.
C22_ExactlyRegularFilesNamedFileName ==
    (fwpc = "returned" /\ findRet.err = "nil") =>
        /\ SeqSet(findRet.files) = SeqSet(strictFiles)
        /\ Len(findRet.files) = Len(strictFiles)

\* C22 amended: a walk without error returns, in walk order, exactly the
\* paths relative to the base directory of the entries that are not
\* directories, whose name equals the last element of the configured file
\* name, and that are neither hidden nor ignored nor below a hidden or
\* ignored directory; the list is empty when there is none.
C22_ExactlyConfigEntries ==
    (fwpc = "returned" /\ findRet.err = "nil") =>
        findRet.files = expectedFiles

\* a walk below a directory other than "." returned one file and left out a
\* file of the same name below a hidden or ignored directory
C22_Witness ==
    /\ fwpc = "returned"
    /\ findRet.err = "nil"
    /\ baseDir # <<DotName>>
    /\ Len(findRet.files) = 1
    /\ Len(dirStack) >= 2
    /\ dirStack[Len(dirStack)].skipped
    /\ dirStack[Len(dirStack)].last = 3
    /\ fileName = <<E2EYaml>>
    /\ visited = MaxEntries

\* ---------------------------------------------------------------- C36
\* C36: every unit that has finished runTest has printed its live line:
\* "--- FAIL" when cmd.Run() returned an error, "--- PASS" otherwise.
C36_LiveLineForEveryTest ==
    \A i \in Units :
        pc[i] \in {"returning", "done"} =>
            liveLine[i] = IF RunErr(result[i]) THEN "FAIL" ELSE "PASS"

\* ---------------------------------------------------------------- C37
\* C37: while a unit is at its reads of r.failedTests[0] and r.testTimings
\* after Unlock, no other worker is still on its way to its writes.
C37_ReadsSynchronised ==
    \A i \in Units :
        pc[i] = "unlocked" =>
            \A j \in Units \ {i} :
                pc[j] \notin {"waiting", "admitted", "running", "exited", "locked"}

\* ---------------------------------------------------------------- C39
\* C39: once the context is cancelled no process is started: a unit that is
\* inside runTest before cmd.Start() leaves that point without a process and
\* with an error, and a unit that got no process is recorded in the failed
\* list, never in the passed list.
C39_NoStartAfterCancel ==
    [][/\ \A i \in Units :
             cancelled =>
                /\ (pc'[i] = "running" => pc[i] = "running")
                /\ (pc[i] = "admitted" /\ pc'[i] # "admitted")
                      => (pc'[i] = "exited" /\ result'[i] = "notstarted")
       /\ \A i \in Units :
             (result'[i] = "notstarted" /\ i \in Recorded')
                => /\ InSeq(testsToRun[i], failedTests')
                   /\ Len(failedTests') >= Cardinality({j \in Recorded' : RunErr(result'[j])})
                   /\ Len(passedTests') = Cardinality({j \in Recorded' : ~RunErr(result'[j])})]_vars

\* parallel mode: a worker that waited for the only slot when the failure
\* was recorded has returned without a process and is in the failed list
C39_Witness ==
    /\ ~config.NoParallel
    /\ ~config.NoFastFail
    /\ config.Parallelism = 1
    /\ \E i \in Units :
          /\ pc[i] = "done"
          /\ result[i] = "notstarted"
          /\ InSeq(testsToRun[i], failedTests)

\* ---------------------------------------------------------------- C40
\* C40: in parallel mode the held slots are exactly the workers inside
\* runTest; a slot is given up only by the step in which its worker returns
\* from runTest, after its outcome was recorded, whatever the outcome; a
\* worker that has returned holds none, and none is held at the summary.
C40_SlotsMatchWorkers ==
    [][~config.NoParallel =>
          /\ sem' = InsideRunTest'
          /\ \A i \in sem \ sem' :
                /\ pc[i] = "returning"
                /\ pc'[i] = "done"
                /\ \/ InSeq(testsToRun[i], passedTests) /\ ~RunErr(result[i])
                   \/ InSeq(testsToRun[i], failedTests) /\ RunErr(result[i])
          /\ \A i \in Units : pc[i] = "done" => i \notin sem'
          /\ mainpc' \in {"summarizing", "done"} => sem' = {}]_vars

\* the summary is reached after a passing, a failing and a cancelled worker
\* gave up their slots
C40_Witness ==
    /\ ~config.NoParallel
    /\ mainpc = "summarizing"
    /\ sem = {}
    /\ \E i, j, k \in Units :
          /\ result[i] = "ok"
          /\ result[j] = "fail"
          /\ result[k] \in {"killed", "notstarted"}

\* ---------------------------------------------------------------- C31
\* C31: with a concurrency limit of at least 1, a run that has begun to
\* dispatch eventually reaches Done: RunTests returns.
C31_RunReachesDone ==
    (mainpc = "dispatching" /\ config.Parallelism >= 1) ~> (mainpc = "done")

\* ---------------------------------------------------------------- C38
\* C38: a parallel run with a concurrency limit of 0 and at least one test
\* eventually reaches the summary.
C38_ZeroLimitReachesSummary ==
    (/\ mainpc = "dispatching"
     /\ ~config.NoParallel
     /\ config.Parallelism = 0
     /\ Len(testsToRun) >= 1)
        ~> (mainpc \in {"summarizing", "done"})

\* ---------------------------------------------------------------- C32
\* C32: with tags configured, a parsed test file that has no //go:build line
\* before its package clause but one in a comment after it is included, and
\* that line causes no error.
C32_TrailingConstraintIgnored ==
    (/\ BuildTags # <<>>
     /\ entry.kind = "test"
     /\ entry.parses
     /\ entry.header = "none"
     /\ entry.trailing # "none")
        => (included /\ walkErr = "none")

\* ---------------------------------------------------------------- C33
\* C33: the list a successful getTestsToRun returns holds no name twice.
C33_NoDuplicateIdentifier ==
    (walkpc = "returned" /\ discRet.err = "none") =>
        \A k, l \in 1..Len(discRet.tests) :
            discRet.tests[k] = discRet.tests[l] => k = l

\* ---------------------------------------------------------------- C34
\* C34: two units whose containers exist at the same time never have the
\* same container name.
C34_ContainerNamesDistinct ==
    (containers # <<>> /\ containers[1] # <<>> /\ containers[2] # <<>>)
        => containers[1] # containers[2]

\* ---------------------------------------------------------------- C35
\* C35: when RunTests has made its initialisations and starts to dispatch,
\* the passed, failed and incomplete lists and the timing map are empty, in
\* the first call and in a later call on the same runner.
C35_EmptyAtRunStart ==
    [][(mainpc = "idle" /\ mainpc' = "dispatching") =>
          /\ passedTests' = <<>>
          /\ failedTests' = <<>>
          /\ incompleteTests' = <<>>
          /\ testTimings' = {}]_vars

====
